---- MODULE Spec2Model ----
(***************************************************************************)
(* Mess-Manager: the real-time summary controller (subscribeToSummaryData) *)
(* of the data service, the four store subscriptions it opens, and the     *)
(* settlement computation it runs on every snapshot.                       *)
(*                                                                         *)
(* JavaScript numbers are modelled as exact fractions [n, d] (d > 0, in    *)
(* lowest terms); an absent numeric field is the fraction with d = 0.      *)
(* JavaScript arrays are sequences, documents are records.                 *)
(***************************************************************************)
EXTENDS Integers, Sequences, FiniteSets, Bags, TLC

\* ------------------------------------------------------------- bounds
\* Number of changes of the store's query results in one behaviour.
MaxChanges == 1
\* Number of calls of the write interface in one behaviour.
MaxWrites == 3
\* Number of calls of subscribeToAllData and handleSaveNewUser on one page.
MaxPageCalls == 3

\* ------------------------------------------------------------ numbers

Abs(x) == IF x < 0 THEN -x ELSE x

RECURSIVE Gcd(_, _)
Gcd(a, b) == IF b = 0 THEN a ELSE Gcd(b, a % b)

\* The fraction n/d (d > 0) in lowest terms.
Frac(n, d) == LET g == Gcd(Abs(n), d) IN [n |-> n \div g, d |-> d \div g]

Num(k) == [n |-> k, d |-> 1]
Zero == Num(0)
\* A numeric field the document does not have (undefined).
Undefined == [n |-> 0, d |-> 0]

Add(x, y) == Frac(x.n * y.d + y.n * x.d, x.d * y.d)
Sub(x, y) == Frac(x.n * y.d - y.n * x.d, x.d * y.d)
Mul(x, y) == Frac(x.n * y.n, x.d * y.d)
\* x / y for y # 0.
Div(x, y) == IF y.n > 0 THEN Frac(x.n * y.d, x.d * y.n)
                        ELSE Frac(-(x.n * y.d), x.d * (-y.n))
Positive(x) == x.n > 0

\* (v || 0): undefined, and 0 itself, give 0.
OrZero(v) == IF v.d = 0 THEN Zero ELSE v

RECURSIVE SumFrom(_, _)
\* array.reduce((sum, x) => sum + x, 0) over an array of numbers.
SumFrom(xs, i) == IF i > Len(xs) THEN Zero ELSE Add(xs[i], SumFrom(xs, i + 1))
Sum(xs) == SumFrom(xs, 1)

\* array.map(f) for a function given as a sequence-valued expression.
Indices(xs) == 1..Len(xs)

\* ---------------------------------------------------------- documents

Streams == {"users", "meals", "deposits", "costs"}
\* The streams whose snapshot handler awaits getAllUsers() before it calls
\* the consumer: onDepositsUpdate and onCostsUpdate.
JoinedStreams == {"deposits", "costs"}

\* The period the controller was created for.
month == "2025-01"

UserDoc(id, name, role, status) ==
    [id |-> id, name |-> name, role |-> role, status |-> status]
MealDoc(id, userId, totalMeals) ==
    [id |-> id, userId |-> userId, totalMeals |-> totalMeals]
DepositDoc(id, userId, amount) ==
    [id |-> id, userId |-> userId, amount |-> Num(amount)]
CostDoc(id, type, userId, amount) ==
    [id |-> id, type |-> type, userId |-> userId, amount |-> Num(amount)]

\* A user document written before the status field existed has no status.
NoStatus == "(none)"

\* The result sets the four queries can have (users ordered by name, deposits
\* and costs by date, latest first).
UsersResults ==
    { << UserDoc("A", "Ann", "border", "approved"),
         UserDoc("B", "Bob", "border", "pending") >>,
      << UserDoc("A", "Ann", "manager", "approved"),
         UserDoc("B", "Bob", "border", NoStatus) >> }
MealsResults ==
    { << MealDoc("m1", "A", Frac(5, 2)), MealDoc("m2", "B", Num(1)) >>,
      <<>> }
DepositsResults ==
    { << DepositDoc("d2", "B", 100), DepositDoc("d1", "A", 300) >>,
      << DepositDoc("d1", "A", 300) >> }
CostsResults ==
    { << CostDoc("c3", "individual", "B", 50),
         CostDoc("c2", "shared", "A", 100),
         CostDoc("c1", "market", "A", 500) >>,
      << CostDoc("c1", "market", "A", 500) >> }

\* What the store holds when the controller is created.
InitialStore ==
    [ users |-> << UserDoc("A", "Ann", "border", "approved"),
                   UserDoc("B", "Bob", "border", "pending") >>,
      meals |-> << MealDoc("m1", "A", Frac(5, 2)), MealDoc("m2", "B", Num(1)) >>,
      deposits |-> << DepositDoc("d2", "B", 100), DepositDoc("d1", "A", 300) >>,
      costs |-> << CostDoc("c3", "individual", "B", 50),
                   CostDoc("c2", "shared", "A", 100),
                   CostDoc("c1", "market", "A", 500) >> ]

Results(s) ==
    CASE s = "users" -> UsersResults
      [] s = "meals" -> MealsResults
      [] s = "deposits" -> DepositsResults
      [] s = "costs" -> CostsResults

\* -------------------------------------------------- settlement summary

\* participatingUsers without the test of the status.
participatingUsersAnyStatus(users) ==
    SelectSeq(users, LAMBDA u : u.role = "border" \/ u.role = "manager")

\* The participants that get a row: users.filter(u => (u.role === 'border'
\* || u.role === 'manager') && u.status !== 'pending').
participatingUsers(users) ==
    SelectSeq(users, LAMBDA u : (u.role = "border" \/ u.role = "manager")
                                /\ u.status # "pending")

Amounts(docs) == [i \in Indices(docs) |-> docs[i].amount]
OfType(allCosts, type) == SelectSeq(allCosts, LAMBDA c : c.type = type)

\* userSummary that charges every cost attributed to the participant,
\* whatever its type, as an individual cost.
userSummaryAnyType(user, allMeals, allDeposits, allCosts, mealRate, sharedCostPerUser) ==
    LET mine == SelectSeq(allMeals, LAMBDA m : m.userId = user.id)
        userMeals == Sum([i \in Indices(mine) |-> OrZero(mine[i].totalMeals)])
        userDeposits ==
            Sum(Amounts(SelectSeq(allDeposits, LAMBDA d : d.userId = user.id)))
        userIndividualCosts ==
            Sum(Amounts(SelectSeq(allCosts, LAMBDA c : c.userId = user.id)))
        mealCost == Mul(userMeals, mealRate)
        totalCost == Add(Add(mealCost, sharedCostPerUser), userIndividualCosts)
    IN  [ userId |-> user.id,
          userName |-> user.name,
          totalMeals |-> userMeals,
          totalDeposit |-> userDeposits,
          mealCost |-> mealCost,
          sharedCost |-> sharedCostPerUser,
          individualCost |-> userIndividualCosts,
          totalCost |-> totalCost,
          balance |-> Sub(userDeposits, totalCost) ]

\* One element of userSummaries.
userSummary(user, allMeals, allDeposits, allCosts, mealRate, sharedCostPerUser) ==
    LET mine == SelectSeq(allMeals, LAMBDA m : m.userId = user.id)
        userMeals == Sum([i \in Indices(mine) |-> OrZero(mine[i].totalMeals)])
        userDeposits ==
            Sum(Amounts(SelectSeq(allDeposits, LAMBDA d : d.userId = user.id)))
        userIndividualCosts ==
            Sum(Amounts(SelectSeq(allCosts,
                LAMBDA c : c.type = "individual" /\ c.userId = user.id)))
        mealCost == Mul(userMeals, mealRate)
        totalCost == Add(Add(mealCost, sharedCostPerUser), userIndividualCosts)
    IN  [ userId |-> user.id,
          userName |-> user.name,
          totalMeals |-> userMeals,
          totalDeposit |-> userDeposits,
          mealCost |-> mealCost,
          sharedCost |-> sharedCostPerUser,
          individualCost |-> userIndividualCosts,
          totalCost |-> totalCost,
          balance |-> Sub(userDeposits, totalCost) ]

\* The summary object computed with one deviation v from the code:
\*   "ownedTotals"  the four totals count only records of participants with a row;
\*   "mealsOrOne"   mealRate is totalMarketCost / (totalMeals || 1);
\*   "grossBalance" messBalance is totalAllDeposits minus the market cost and
\*                  the other costs.
ComputeSummaryBut(v, users, allMeals, allDeposits, allCosts) ==
    LET participating == participatingUsers(users)
        Counted(docs) ==
            IF v = "ownedTotals"
            THEN SelectSeq(docs, LAMBDA r :
                    \E i \in Indices(participating) : participating[i].id = r.userId)
            ELSE docs
        counted == Counted(allMeals)
        totalMeals ==
            Sum([i \in Indices(counted) |-> OrZero(counted[i].totalMeals)])
        totalMarketCost == Sum(Amounts(OfType(Counted(allCosts), "market")))
        totalSharedCost == Sum(Amounts(OfType(Counted(allCosts), "shared")))
        totalAllDeposits == Sum(Amounts(Counted(allDeposits)))
        mealRate == IF Positive(totalMeals)
                    THEN Div(totalMarketCost, totalMeals)
                    ELSE IF v = "mealsOrOne" THEN totalMarketCost ELSE Zero
        sharedCostPerUser ==
            IF Len(participating) > 0
            THEN Div(totalSharedCost, Num(Len(participating))) ELSE Zero
        userSummaries ==
            [i \in Indices(participating) |->
                userSummary(participating[i], allMeals, allDeposits, allCosts,
                            mealRate, sharedCostPerUser)]
        totalAllCosts ==
            Sum([i \in Indices(userSummaries) |-> userSummaries[i].totalCost])
        totalOtherCosts ==
            Add(totalSharedCost,
                Sum([i \in Indices(userSummaries) |->
                        userSummaries[i].individualCost]))
    IN  [ month |-> month,
          totalMeals |-> totalMeals,
          totalMarketCost |-> totalMarketCost,
          totalSharedCost |-> totalSharedCost,
          totalOtherCosts |-> totalOtherCosts,
          totalAllDeposits |-> totalAllDeposits,
          messBalance |->
              IF v = "grossBalance"
              THEN Sub(totalAllDeposits, Add(totalMarketCost, totalOtherCosts))
              ELSE Sub(totalAllDeposits, totalAllCosts),
          mealRate |-> mealRate,
          sharedCostPerUser |-> sharedCostPerUser,
          userCount |-> Len(participating),
          userSummaries |-> userSummaries ]

ComputeSummaryOwnedTotals(users, allMeals, allDeposits, allCosts) ==
    ComputeSummaryBut("ownedTotals", users, allMeals, allDeposits, allCosts)
ComputeSummaryMealsOrOne(users, allMeals, allDeposits, allCosts) ==
    ComputeSummaryBut("mealsOrOne", users, allMeals, allDeposits, allCosts)
ComputeSummaryGrossBalance(users, allMeals, allDeposits, allCosts) ==
    ComputeSummaryBut("grossBalance", users, allMeals, allDeposits, allCosts)

\* The object calculateAndBroadcast hands to the consumer callback.
ComputeSummary(users, allMeals, allDeposits, allCosts) ==
    LET totalMeals ==
            Sum([i \in Indices(allMeals) |-> OrZero(allMeals[i].totalMeals)])
        totalMarketCost == Sum(Amounts(OfType(allCosts, "market")))
        totalSharedCost == Sum(Amounts(OfType(allCosts, "shared")))
        totalAllDeposits == Sum(Amounts(allDeposits))
        mealRate == IF Positive(totalMeals)
                    THEN Div(totalMarketCost, totalMeals) ELSE Zero
        participating == participatingUsers(users)
        sharedCostPerUser ==
            IF Len(participating) > 0
            THEN Div(totalSharedCost, Num(Len(participating))) ELSE Zero
        userSummaries ==
            [i \in Indices(participating) |->
                userSummary(participating[i], allMeals, allDeposits, allCosts,
                            mealRate, sharedCostPerUser)]
        totalAllCosts ==
            Sum([i \in Indices(userSummaries) |-> userSummaries[i].totalCost])
    IN  [ month |-> month,
          totalMeals |-> totalMeals,
          totalMarketCost |-> totalMarketCost,
          totalSharedCost |-> totalSharedCost,
          totalOtherCosts |->
              Add(totalSharedCost,
                  Sum([i \in Indices(userSummaries) |->
                          userSummaries[i].individualCost])),
          totalAllDeposits |-> totalAllDeposits,
          messBalance |-> Sub(totalAllDeposits, totalAllCosts),
          mealRate |-> mealRate,
          sharedCostPerUser |-> sharedCostPerUser,
          userCount |-> Len(participating),
          userSummaries |-> userSummaries ]

SummaryOf(sl) == ComputeSummary(sl.users, sl.meals, sl.deposits, sl.costs)

\* -------------------------------------------------------------- state

VARIABLES
    store,        \* store[s]: the current result set of stream s's query
    sub,          \* sub[s]: "listening" (opened, no snapshot yet), "active",
                  \*         "errored" or "cancelled"
    slot,         \* the controller's users / allMeals / allDeposits / allCosts
    pending,      \* the bag of snapshot handlers of the joined streams that
                  \* are awaiting their getAllUsers()
    event,        \* what the last step was
    cb,           \* the consumer callback's invocations during the last step
    lastSummary,  \* the last summary the consumer callback received, if any
    got,          \* the streams that have delivered a snapshot to the controller
    changes,      \* number of store changes so far
    logged,       \* calculateAndBroadcast has logged a caught exception
    uncaught,     \* an exception has escaped calculateAndBroadcast
    db,           \* the meals, deposits and costs collections of the database:
                  \* db[c][i] is the document with identifier i
    calls,        \* the bag of saveMeal calls that await their updateDoc/addDoc
    op,           \* the last call of the write interface
    writes,       \* number of calls of the write interface so far
    cfg,          \* the settings document, the participants' own default
                  \* meals, and the last read of them
    auth,         \* accounts, sessions and the checkAuth calls of the pages
    dash,         \* the manager dashboard: its subscriptions and what it shows
    ctl           \* two summary controllers created by separate calls

writeVars == << db, calls, op, writes >>
appVars == << cfg, auth, dash, ctl >>

vars == << store, sub, slot, pending, event, cb, lastSummary, got, changes,
           logged, uncaught, db, calls, op, writes, cfg, auth, dash, ctl >>

\* Where an exception is raised during one pass of calculateAndBroadcast:
\* nowhere, in the computation (before the consumer callback is reached), or
\* in the consumer callback itself.
Faults == {"none", "compute", "consumer"}

Event(kind, s, data, fault, again) ==
    [kind |-> kind, stream |-> s, data |-> data, fault |-> fault, again |-> again]

TornDown == \A s \in Streams : sub[s] = "cancelled"

\* --------------------------------------------------------- controller

\* A JavaScript array, the empty one included, is truthy.
Truthy(array) == Len(array) >= 0

\* calculateAndBroadcast without its try/catch: an exception leaves it.
calculateAndBroadcastNoCatch(sl, fault) ==
    CASE fault = "none" ->
            [calls |-> << SummaryOf(sl) >>, logged |-> FALSE, uncaught |-> FALSE]
      [] fault = "compute" ->
            [calls |-> <<>>, logged |-> FALSE, uncaught |-> TRUE]
      [] fault = "consumer" ->
            [calls |-> << SummaryOf(sl) >>, logged |-> FALSE, uncaught |-> TRUE]

\* calculateAndBroadcast with the slots sl: the invocations of the consumer
\* callback it makes, whether it logs a caught exception, and whether an
\* exception leaves it.
calculateAndBroadcast(sl, fault) ==
    IF ~Truthy(sl.users) \/ ~Truthy(sl.meals)
          \/ ~Truthy(sl.deposits) \/ ~Truthy(sl.costs)
    THEN [calls |-> <<>>, logged |-> FALSE, uncaught |-> FALSE]
    ELSE CASE fault = "none" ->
                [calls |-> << SummaryOf(sl) >>, logged |-> FALSE, uncaught |-> FALSE]
           [] fault = "compute" ->
                [calls |-> <<>>, logged |-> TRUE, uncaught |-> FALSE]
           [] fault = "consumer" ->
                [calls |-> << SummaryOf(sl) >>, logged |-> TRUE, uncaught |-> FALSE]

\* The stream callback that recomputes before it stores the snapshot.
StreamCallbackStale(s, data, error, fault) ==
    IF error
    THEN [slot |-> slot, calls |-> <<>>, logged |-> FALSE, uncaught |-> FALSE]
    ELSE [slot |-> [slot EXCEPT ![s] = data]] @@ calculateAndBroadcast(slot, fault)

\* The stream callback without "if (error) return": the empty array that
\* comes with an error is stored and broadcast.
StreamCallbackNoErrorCheck(s, data, error, fault) ==
    LET sl == [slot EXCEPT ![s] = data]
    IN  [slot |-> sl] @@ calculateAndBroadcast(sl, fault)

\* The callback the controller gives to stream s, called with (data, error):
\* the slots after it, and what calculateAndBroadcast did.
StreamCallback(s, data, error, fault) ==
    IF error
    THEN [slot |-> slot, calls |-> <<>>, logged |-> FALSE, uncaught |-> FALSE]
    ELSE LET sl == [slot EXCEPT ![s] = data]
         IN  [slot |-> sl] @@ calculateAndBroadcast(sl, fault)

\* The composite unsubscribe without its call of unsubCosts.
UnsubscribedButCosts ==
    [s \in Streams |-> IF s = "costs" THEN sub[s] ELSE "cancelled"]

\* The composite unsubscribe: the four subscriptions after it.
Unsubscribed == [s \in Streams |-> "cancelled"]

\* ------------------------------------------------------------ streams

\* userMap.get(data.userId) || 'Unknown User'
UserNameOf(users, userId) ==
    IF \E i \in Indices(users) : users[i].id = userId
    THEN users[CHOOSE i \in Indices(users) : users[i].id = userId].name
    ELSE "Unknown User"

\* snapshot.docs.map(doc => ({id, ...data, userName}))
WithUserNames(docs, users) ==
    [i \in Indices(docs) |->
        [userName |-> UserNameOf(users, docs[i].userId)] @@ docs[i]]

\* What the snapshot handler of onDepositsUpdate / onCostsUpdate passes to its
\* callback once getAllUsers() has settled: fetched.ok says whether it resolved.
JoinedCallbackArgs(docs, fetched) ==
    IF fetched.ok
    THEN [data |-> WithUserNames(docs, fetched.users), error |-> FALSE]
    ELSE [data |-> <<>>, error |-> TRUE]

\* getAllUsers(): the users collection as it is now.
getAllUsers == store.users

\* ---------------------------------------------------- write interface

\* Dates are strings of ten characters, YYYY-MM-DD.
Jan15 == << "2", "0", "2", "5", "-", "0", "1", "-", "1", "5" >>
Jan31 == << "2", "0", "2", "5", "-", "0", "1", "-", "3", "1" >>
Feb01 == << "2", "0", "2", "5", "-", "0", "2", "-", "0", "1" >>

\* string.substring(from, to)
Substring(str, from, to) == SubSeq(str, from + 1, to)

\* The database before any call of the write interface.
EmptyDb == [meals |-> <<>>, deposits |-> <<>>, costs |-> <<>>]

\* The members of the mess while the write interface is used.
Members ==
    << UserDoc("A", "Ann", "manager", "approved"),
       UserDoc("B", "Bob", "border", "approved") >>

\* An amount typed into a form, before it is parsed.
Text(str) == [text |-> str]
\* parseFloat(v): a number is returned as it is, a string is read as a
\* decimal number with an optional sign.
parseFloat(v) ==
    IF "text" \in DOMAIN v
    THEN CASE v.text = "-50" -> Num(-50)
           [] v.text = "100" -> Num(100)
           [] v.text = "0" -> Zero
    ELSE v

\* A JavaScript number or string used as a condition: 0 and "" are falsy.
TruthyValue(v) ==
    IF "text" \in DOMAIN v THEN v.text # "" ELSE v.n # 0

\* The arguments the forms of the manager dashboard can pass.
MealInputs ==
    { [breakfast |-> Num(1), lunch |-> Num(1), dinner |-> Num(1)],
      [breakfast |-> Zero, lunch |-> Frac(1, 2), dinner |-> Num(1)] }
MealDates == {Jan15, Feb01}
LedgerDates == {Jan31, Feb01}
AmountInputs == {Num(-50), Num(100), Text("-50")}
CostInputs ==
    { [date |-> d, type |-> t, description |-> "N/A", amount |-> Num(30),
       userId |-> "A"] : d \in LedgerDates, t \in {"market", "individual"} }
CostUpdates ==
    { [date |-> d, description |-> "N/A", amount |-> Num(40), userId |-> "B"] :
        d \in LedgerDates }
DepositUpdates ==
    { [userId |-> u, amount |-> a, date |-> d, description |-> "N/A"] :
        u \in {"A", "B"}, a \in {Num(-50), Zero}, d \in LedgerDates }

\* query(collection, where('month', '==', m)): the documents of the period m.
MonthQuery(collection, m) == SelectSeq(collection, LAMBDA r : r.month = m)

\* updateDoc(ref, data): the fields of data replace those of the document.
Merged(document, data) == data @@ document

\* getDocs(query(meals, userId == userId, date == date)).docs, as identifiers.
existingMealSnapshot(meals, userId, date) ==
    SelectSeq([i \in Indices(meals) |-> i],
              LAMBDA i : meals[i].userId = userId /\ meals[i].date = date)

\* mealData.breakfast + mealData.lunch + mealData.dinner, each || 0.
totalMealsOf(mealData) ==
    Add(Add(OrZero(mealData.breakfast), OrZero(mealData.lunch)),
        OrZero(mealData.dinner))

\* saveMeal that adds a document without looking at the query's result.
saveMealAlwaysAdds(meals, call) ==
    Append(meals,
           [userId |-> call.userId, date |-> call.date,
            month |-> Substring(call.date, 0, 7),
            totalMeals |-> totalMealsOf(call.mealData)] @@ call.mealData)

\* The meals collection after the second half of saveMeal: the first
\* document the query found is updated, or a document is added.
saveMeal(meals, call) ==
    LET month_ == Substring(call.date, 0, 7)
        totalMeals == totalMealsOf(call.mealData)
    IN  IF call.found # <<>>
        THEN [meals EXCEPT ![call.found[1]] =
                Merged(@, [totalMeals |-> totalMeals, month |-> month_]
                              @@ call.mealData)]
        ELSE Append(meals,
                    [userId |-> call.userId, date |-> call.date,
                     month |-> month_, totalMeals |-> totalMeals]
                        @@ call.mealData)

\* addDeposit that refuses to store less than nothing.
addDepositClamped(userId, amount, date, description) ==
    [ userId |-> userId,
      amount |-> IF parseFloat(amount).n < 0 THEN Zero ELSE parseFloat(amount),
      date |-> date,
      month |-> Substring(date, 0, 7),
      description |-> IF description = "" THEN "N/A" ELSE description ]

\* The document addDeposit adds.
addDeposit(userId, amount, date, description) ==
    [ userId |-> userId,
      amount |-> parseFloat(amount),
      date |-> date,
      month |-> Substring(date, 0, 7),
      description |-> IF description = "" THEN "N/A" ELSE description ]

\* updateDeposit that leaves the month alone.
updateDepositKeepsMonth(data) ==
    IF TruthyValue(data.amount)
    THEN [data EXCEPT !.amount = parseFloat(data.amount)]
    ELSE data

\* The fields updateDeposit writes.
updateDeposit(data) ==
    LET dated == IF data.date # <<>>
                 THEN [month |-> Substring(data.date, 0, 7)] @@ data
                 ELSE data
    IN  IF TruthyValue(data.amount)
        THEN [dated EXCEPT !.amount = parseFloat(data.amount)]
        ELSE dated

\* The document addCost adds.
addCost(costData) == [month |-> Substring(costData.date, 0, 7)] @@ costData

\* The fields updateCost writes.
updateCost(data) ==
    IF data.date # <<>>
    THEN [month |-> Substring(data.date, 0, 7)] @@ data
    ELSE data

NoWrites ==
    /\ db = EmptyDb
    /\ calls = EmptyBag
    /\ op = [name |-> "none"]
    /\ writes = 0

\* ----------------------------------------------------------- settings

\* { breakfast: 0.5, lunch: 1, dinner: 1 }
HardcodedMeals == [breakfast |-> Frac(1, 2), lunch |-> Num(1), dinner |-> Num(1)]

\* new Date().toISOString().substring(0, 7) can give any month.
Months == {"2025-01", "2025-02"}

\* The settings object built when the settings document is absent.
defaultSettings(today) ==
    [defaultMeals |-> HardcodedMeals, currentMonth |-> today,
     lastResetDate |-> "null"]

\* A document that may be absent is a sequence of at most one record.
Absent == <<>>
Exists(docSnap) == docSnap # Absent
Data(docSnap) == docSnap[1]

\* The snapshot handler of onSettingsUpdate on the snapshot docSnap: what it
\* gives to the callback, and the settings document after it.
onSettingsUpdate(docSnap, today) ==
    IF Exists(docSnap)
    THEN [given |-> Data(docSnap), doc |-> docSnap]
    ELSE [given |-> defaultSettings(today),
          doc |-> << defaultSettings(today) >>]

\* getSettings(): what it returns, or that it throws (the read failed), and
\* the settings document after it.
getSettings(docSnap, readFails, today) ==
    IF readFails
    THEN [threw |-> TRUE, value |-> Absent, doc |-> docSnap]
    ELSE [threw |-> FALSE,
          value |-> IF Exists(docSnap) THEN docSnap
                    ELSE << defaultSettings(today) >>,
          doc |-> docSnap]

\* Which read of getUserDefaultMeals fails.
ReadFailures == {"none", "user", "settings"}

\* getUserDefaultMeals without the fallback to the settings.
getUserDefaultMealsOwnOrHardcoded(userDoc, docSnap, failure, today) ==
    IF failure # "user" /\ Exists(userDoc) /\ Data(userDoc).defaultMeals # Absent
    THEN [threw |-> FALSE, value |-> Data(userDoc).defaultMeals[1]]
    ELSE [threw |-> FALSE, value |-> HardcodedMeals]

\* getUserDefaultMeals(userId) for the participant document userDoc and the
\* settings document docSnap: what it returns, and whether it throws.
getUserDefaultMeals(userDoc, docSnap, failure, today) ==
    IF failure = "user"
    THEN [threw |-> FALSE, value |-> HardcodedMeals]
    ELSE IF Exists(userDoc) /\ Data(userDoc).defaultMeals # Absent
    THEN [threw |-> FALSE, value |-> Data(userDoc).defaultMeals[1]]
    ELSE LET settings == getSettings(docSnap, failure = "settings", today)
         IN  IF settings.threw
             THEN [threw |-> FALSE, value |-> HardcodedMeals]
             ELSE [threw |-> FALSE, value |-> settings.value[1].defaultMeals]

\* The weights a participant or the manager can save.
MealWeights ==
    { [breakfast |-> Num(1), lunch |-> Num(1), dinner |-> Num(1)],
      [breakfast |-> Zero, lunch |-> Num(1), dinner |-> Frac(1, 2)] }

\* Participant documents: with own default meals, without them (written
\* before the field existed), and no document.
InitCfg ==
    [ doc |-> Absent,
      users |-> [ A |-> << [defaultMeals |-> << HardcodedMeals >>] >>,
                  B |-> << [defaultMeals |-> Absent] >>,
                  Z |-> Absent ],
      read |-> [name |-> "none"] ]

\* ----------------------------------------------------------- accounts

\* The accounts: the first manager, and two people who may join.
Uids == {"m", "u1", "u2"}
NoUser == "(nobody)"

\* The participant document of a self-signup (email or Google) that is
\* approved at once.
signupDocApproved == [role |-> "border", status |-> "approved"]

\* The participant document the signup form and the first Google sign-in
\* write.
signupDoc == [role |-> "border", status |-> "pending"]

\* The participant document handleSaveNewUser writes.
managerAddedDoc(role) == [role |-> role, status |-> "approved"]

\* requiredRole = null
AnyRole == "(any)"

Outcome(resolved, signedOut, redirect, error) ==
    [resolved |-> resolved, signedOut |-> signedOut, redirect |-> redirect,
     error |-> error]

\* checkAuth that looks at the role before it looks at the status.
checkAuthRoleFirst(user, userDoc, readFails, requiredRole) ==
    IF user = NoUser
    THEN Outcome(FALSE, FALSE, "index.html", "Not authenticated")
    ELSE IF readFails
    THEN Outcome(FALSE, TRUE, "index.html", "read failed")
    ELSE IF ~Exists(userDoc)
    THEN Outcome(FALSE, TRUE, "index.html", "User data not found")
    ELSE IF requiredRole # AnyRole /\ Data(userDoc).role # requiredRole
    THEN Outcome(FALSE, FALSE,
                 IF Data(userDoc).role = "manager" THEN "manager.html"
                 ELSE "user.html",
                 "Unauthorized role")
    ELSE IF Data(userDoc).status # "approved"
    THEN Outcome(FALSE, TRUE, "index.html", "Account not approved")
    ELSE Outcome(TRUE, FALSE, "", "")

\* checkAuth(requiredRole) for the signed-in user (or nobody) and the user's
\* participant document: whether the promise resolves, whether the session
\* is signed out, where the page is sent, and the error of the rejection.
checkAuth(user, userDoc, readFails, requiredRole) ==
    IF user = NoUser
    THEN Outcome(FALSE, FALSE, "index.html", "Not authenticated")
    ELSE IF readFails
    THEN Outcome(FALSE, TRUE, "index.html", "read failed")
    ELSE IF ~Exists(userDoc)
    THEN Outcome(FALSE, TRUE, "index.html", "User data not found")
    ELSE IF Data(userDoc).status # "approved"
    THEN Outcome(FALSE, TRUE, "index.html", "Account not approved")
    ELSE IF requiredRole # AnyRole /\ Data(userDoc).role # requiredRole
    THEN Outcome(FALSE, FALSE,
                 IF Data(userDoc).role = "manager" THEN "manager.html"
                 ELSE "user.html",
                 "Unauthorized role")
    ELSE Outcome(TRUE, FALSE, "", "")

\* The first manager has an account and an approved participant document.
InitAuth ==
    [ accounts |-> {"m"},
      docs |-> [u \in Uids |-> IF u = "m" THEN << managerAddedDoc("manager") >>
                               ELSE Absent],
      origin |-> [u \in Uids |-> IF u = "m" THEN "manager" ELSE "none"],
      approvedByManager |-> {},
      session |-> NoUser,
      last |-> [name |-> "none"] ]

\* ---------------------------------------------------------- dashboard

\* What subscribeToAllData subscribes to, in its order: the manager
\* dashboard's and the user dashboard's.
PageStreams(page) ==
    IF page = "manager"
    THEN << "summary", "users", "costs", "deposits", "settings" >>
    ELSE << "summary", "meals", "deposits" >>

\* A subscription opened by invocation number by of subscribeToAllData (0:
\* by another function), with the number of calls of its unsubscribe.
Subscription(stream, by) ==
    [stream |-> stream, by |-> by, unsubscribed |-> 0, failed |-> FALSE]

\* unsub(): the subscription i of opened is cancelled.
Cancelled(opened, called) ==
    [i \in Indices(opened) |->
        IF i \in called
        THEN [opened[i] EXCEPT !.unsubscribed = @ + 1] ELSE opened[i]]

\* subscribeToAllData without its first two lines: nothing is cancelled and
\* the new unsubscribe functions are pushed after the old ones.
subscribeToAllDataNoClear(d) ==
    LET streams == PageStreams(d.page)
    IN  [d EXCEPT
           !.invocations = @ + 1,
           !.opened = d.opened \o
                [k \in Indices(streams) |->
                    Subscription(streams[k], d.invocations + 1)],
           !.unsubscribers = d.unsubscribers \o
                [k \in Indices(streams) |-> Len(d.opened) + k]]

\* subscribeToAllData() on the page state d: every recorded unsubscribe is
\* called, the list is emptied, and the page's subscriptions are opened and
\* recorded.
subscribeToAllData(d) ==
    LET streams == PageStreams(d.page)
        cleared == Cancelled(d.opened,
                             {d.unsubscribers[k] : k \in Indices(d.unsubscribers)})
    IN  [d EXCEPT
           !.invocations = @ + 1,
           !.opened = cleared \o
                [k \in Indices(streams) |->
                    Subscription(streams[k], d.invocations + 1)],
           !.unsubscribers =
                [k \in Indices(streams) |-> Len(d.opened) + k]]

\* The streams whose consumer on the manager dashboard fills a table.
TableStreams == {"users", "costs", "deposits"}

\* The manager dashboard's consumer of a table stream, called with (data):
\* it renders the table, and the users consumer fills allUsersCache.
Consumer(d, stream, data) ==
    [d EXCEPT !.tables[stream] = data,
              !.allUsersCache = IF stream = "users" THEN data ELSE @]

\* The amounts renderOverviewSection puts on the stat cards of the overview.
renderOverviewSection(summary) ==
    [ messBalance |-> summary.messBalance,
      totalDeposit |-> summary.totalAllDeposits,
      totalOtherCosts |-> summary.totalOtherCosts,
      totalMealCost |-> summary.totalMarketCost,
      totalCost |-> Add(summary.totalMarketCost, summary.totalOtherCosts) ]

\* The page before initializeManager / initializeUser.
InitDash ==
    [ page |-> "none",
      invocations |-> 0,
      calls |-> 0,
      opened |-> <<>>,
      unsubscribers |-> <<>>,
      allUsersCache |-> <<>>,
      tables |-> [st \in TableStreams |-> <<>>],
      last |-> [name |-> "none"] ]

\* ---------------------------------------------------- two controllers

Controllers == {1, 2}

\* The closure subscribeToSummaryData(m, callback) creates: its month, its
\* four slots, whether its composite unsubscribe has been called, and the
\* last summary its callback received.
NewController(m) ==
    [month |-> m, slot |-> [s \in Streams |-> <<>>], live |-> TRUE,
     last |-> <<>>]

\* The summary a controller of month m computes from its slots.
SummaryFor(m, sl) == [SummaryOf(sl) EXCEPT !.month = m]

\* The stream callback that broadcasts before it stores the snapshot.
StreamCallbackOfStale(c, s, data, error) ==
    IF error THEN [c |-> c, fired |-> FALSE]
    ELSE [c |-> [c EXCEPT !.slot[s] = data,
                          !.last = << SummaryFor(c.month, c.slot) >>],
          fired |-> TRUE]

\* The callback controller c gives to stream s, called with (data, error):
\* the controller after it, and whether its consumer callback fired.
StreamCallbackOf(c, s, data, error) ==
    IF error THEN [c |-> c, fired |-> FALSE]
    ELSE LET sl == [c.slot EXCEPT ![s] = data]
             given == calculateAndBroadcast(sl, "none").calls
         IN  [c |-> [c EXCEPT !.slot = sl,
                              !.last = IF given = <<>> THEN @
                                       ELSE << [given[1] EXCEPT !.month = c.month] >>],
              fired |-> given # <<>>]

\* The slots as variables of the module: a snapshot for one controller is
\* stored for every controller.
DeliveredShared(cs, k, s, data, error) ==
    LET r == StreamCallbackOf(cs[k], s, data, error)
    IN  [cs |-> [j \in DOMAIN cs |->
                    IF j = k THEN r.c ELSE [cs[j] EXCEPT !.slot = r.c.slot]],
         fired |-> IF r.fired THEN {k} ELSE {}]

\* Stream s of controller k calls back with (data, error): the controllers
\* after it, and those whose consumer callback fired.
Delivered(cs, k, s, data, error) ==
    LET r == StreamCallbackOf(cs[k], s, data, error)
    IN  [cs |-> [cs EXCEPT ![k] = r.c],
         fired |-> IF r.fired THEN {k} ELSE {}]

\* The result sets the streams of the two controllers deliver.
PairResults(s) == IF s \in {"users", "meals"} THEN Results(s) ELSE {InitialStore[s]}

\* No controller has been created.
InitCtl == [cs |-> << >>, last |-> [name |-> "none"]]

InitApps ==
    /\ cfg = InitCfg
    /\ auth = InitAuth
    /\ dash = InitDash
    /\ ctl = InitCtl

\* ------------------------------------------------------------ actions

Init ==
    /\ store = InitialStore
    /\ sub = [s \in Streams |-> "listening"]
    /\ slot = [s \in Streams |-> <<>>]
    /\ pending = EmptyBag
    /\ event = Event("init", "all", <<>>, "none", FALSE)
    /\ cb = <<>>
    /\ lastSummary = <<>>
    /\ got = {}
    /\ changes = 0
    /\ logged = FALSE
    /\ uncaught = FALSE
    /\ NoWrites
    /\ InitApps

\* The controller's callback for stream s runs with (data, error).
Controller(kind, s, raw, data, error, fault) ==
    \E r \in {StreamCallback(s, data, error, fault)} :
        /\ slot' = r.slot
        /\ cb' = r.calls
        /\ lastSummary' = IF r.calls = <<>> THEN lastSummary
                          ELSE << r.calls[Len(r.calls)] >>
        /\ got' = IF error THEN got ELSE got \cup {s}
        /\ logged' = (logged \/ r.logged)
        /\ uncaught' = (uncaught \/ r.uncaught)
        /\ event' = Event(kind, s, IF error THEN raw ELSE data, fault, FALSE)

\* The store hands the snapshot docs to stream s's onSnapshot handler. The
\* handlers of onUsersUpdate and onAllMealsUpdate call the controller at once;
\* those of onDepositsUpdate and onCostsUpdate first await getAllUsers().
OnSnapshot(s, docs, fault) ==
    IF s \in JoinedStreams
    THEN /\ fault = "none"
         /\ pending' = pending (+) SetToBag({[stream |-> s, docs |-> docs]})
         /\ event' = Event("snapshot", s, docs, "none", FALSE)
         /\ cb' = <<>>
         /\ UNCHANGED << slot, lastSummary, got, logged, uncaught >>
    ELSE /\ Controller("data", s, docs, docs, FALSE, fault)
         /\ UNCHANGED pending

\* The first snapshot of a subscription: the query's current result set.
FirstSnapshot(s, fault) ==
    /\ sub[s] = "listening"
    /\ sub' = [sub EXCEPT ![s] = "active"]
    /\ OnSnapshot(s, store[s], fault)
    /\ UNCHANGED << store, changes >>
    /\ UNCHANGED << writeVars, appVars >>

\* The result set of an active subscription's query changes to docs.
ChangeSnapshot(s, docs, fault) ==
    /\ changes < MaxChanges
    /\ sub[s] = "active"
    /\ docs # store[s]
    /\ store' = [store EXCEPT ![s] = docs]
    /\ changes' = changes + 1
    /\ OnSnapshot(s, docs, fault)
    /\ UNCHANGED sub
    /\ UNCHANGED << writeVars, appVars >>

\* The store changes where no subscription of the controller sees it (not
\* yet listening, errored or cancelled).
ChangeUnseen(s, docs) ==
    /\ changes < MaxChanges
    /\ sub[s] # "active"
    /\ docs # store[s]
    /\ store' = [store EXCEPT ![s] = docs]
    /\ changes' = changes + 1
    /\ event' = Event("write", s, docs, "none", FALSE)
    /\ cb' = <<>>
    /\ UNCHANGED << sub, slot, pending, lastSummary, got, logged, uncaught >>
    /\ UNCHANGED << writeVars, appVars >>

\* The subscription of stream s fails: its error handler calls
\* callback([], error), and the store delivers nothing more on it.
StreamError(s) ==
    /\ sub[s] \in {"listening", "active"}
    /\ sub' = [sub EXCEPT ![s] = "errored"]
    /\ Controller("error", s, <<>>, <<>>, TRUE, "none")
    /\ UNCHANGED << store, changes, pending >>
    /\ UNCHANGED << writeVars, appVars >>

\* getAllUsers() of the waiting handler p settles.
JoinSettles(p, ok, fault) ==
    LET args == JoinedCallbackArgs(p.docs, [ok |-> ok, users |-> getAllUsers])
    IN  /\ pending' = pending (-) SetToBag({p})
        /\ Controller(IF args.error THEN "joinfail" ELSE "data",
                      p.stream, p.docs, args.data, args.error, fault)
        /\ UNCHANGED << store, sub, changes >>
        /\ UNCHANGED << writeVars, appVars >>

JoinResolve(p, fault) == JoinSettles(p, TRUE, fault)
JoinReject(p) == JoinSettles(p, FALSE, "none")

\* The function subscribeToSummaryData returned is called.
Unsubscribe ==
    /\ sub' = Unsubscribed
    /\ event' = Event("unsubscribe", "all", <<>>, "none", TornDown)
    /\ cb' = <<>>
    /\ UNCHANGED << store, slot, pending, lastSummary, got, changes, logged,
                    uncaught >>
    /\ UNCHANGED << writeVars, appVars >>

\* A call of the write interface begins.
Called(name, args) ==
    /\ writes < MaxWrites
    /\ writes' = writes + 1
    /\ op' = [name |-> name] @@ args
    /\ UNCHANGED << store, sub, slot, pending, event, cb, lastSummary, got,
                    changes, logged, uncaught, appVars >>

\* saveMeal(userId, date, mealData) up to its await getDocs(q): the query is
\* answered from the collection as it is now.
SaveMealQuery(userId, date, mealData) ==
    /\ Called("saveMeal.query", [userId |-> userId, date |-> date])
    /\ calls' = calls (+) SetToBag({[userId |-> userId, date |-> date,
                   mealData |-> mealData,
                   found |-> existingMealSnapshot(db.meals, userId, date)]})
    /\ UNCHANGED db

\* saveMeal after its await getDocs(q): updateDoc or addDoc.
SaveMealWrite(call) ==
    /\ calls' = calls (-) SetToBag({call})
    /\ db' = [db EXCEPT !.meals = saveMeal(@, call)]
    /\ op' = [name |-> "saveMeal", call |-> call]
    /\ UNCHANGED << store, sub, slot, pending, event, cb, lastSummary, got,
                    changes, logged, uncaught, writes, appVars >>

AddDeposit(userId, amount, date, description) ==
    /\ Called("addDeposit",
              [id |-> Len(db.deposits) + 1, userId |-> userId,
               amount |-> amount, date |-> date])
    /\ db' = [db EXCEPT !.deposits =
                Append(@, addDeposit(userId, amount, date, description))]
    /\ UNCHANGED calls

UpdateDeposit(depositId, data) ==
    /\ Called("updateDeposit",
              [id |-> depositId, data |-> data, old |-> db.deposits[depositId]])
    /\ db' = [db EXCEPT !.deposits[depositId] = Merged(@, updateDeposit(data))]
    /\ UNCHANGED calls

AddCost(costData) ==
    /\ Called("addCost", [id |-> Len(db.costs) + 1, data |-> costData])
    /\ db' = [db EXCEPT !.costs = Append(@, addCost(costData))]
    /\ UNCHANGED calls

UpdateCost(costId, data) ==
    /\ Called("updateCost",
              [id |-> costId, data |-> data, old |-> db.costs[costId]])
    /\ db' = [db EXCEPT !.costs[costId] = Merged(@, updateCost(data))]
    /\ UNCHANGED calls

\* What every step on the settings leaves alone.
OnlyCfg ==
    UNCHANGED << store, sub, slot, pending, event, cb, lastSummary, got,
                 changes, logged, uncaught, writeVars, auth, dash, ctl >>

\* The settings subscription delivers the settings document as it is.
SettingsSnapshot(today) ==
    \E r \in {onSettingsUpdate(cfg.doc, today)} :
        /\ cfg' = [cfg EXCEPT !.doc = r.doc,
                              !.read = [name |-> "onSettingsUpdate",
                                        threw |-> FALSE, value |-> r.given]]
        /\ OnlyCfg

\* A page calls getSettings().
GetSettings(readFails, today) ==
    \E r \in {getSettings(cfg.doc, readFails, today)} :
        /\ cfg' = [cfg EXCEPT !.doc = r.doc,
                              !.read = [name |-> "getSettings",
                                        threw |-> r.threw,
                                        value |-> IF r.threw
                                                  THEN [error |-> "read failed"]
                                                  ELSE r.value[1]]]
        /\ OnlyCfg

\* The user dashboard calls getUserDefaultMeals(userId).
GetUserDefaultMeals(userId, failure, today) ==
    \E r \in {getUserDefaultMeals(cfg.users[userId], cfg.doc, failure, today)} :
        /\ cfg' = [cfg EXCEPT !.read = [name |-> "getUserDefaultMeals",
                                        userId |-> userId, failure |-> failure,
                                        threw |-> r.threw, value |-> r.value]]
        /\ OnlyCfg

\* handleSaveSettings: updateSettings({defaultMeals, currentMonth}), merged.
UpdateSettings(defaultMeals, currentMonth) ==
    /\ cfg' = [cfg EXCEPT
                 !.doc = << Merged(IF Exists(@) THEN Data(@)
                                   ELSE [defaultMeals |-> defaultMeals],
                                   [defaultMeals |-> defaultMeals,
                                    currentMonth |-> currentMonth]) >>,
                 !.read = [name |-> "updateSettings"]]
    /\ OnlyCfg

\* updateUserDefaultMeals(userId, defaultMeals) of an existing participant.
UpdateUserDefaultMeals(userId, defaultMeals) ==
    /\ Exists(cfg.users[userId])
    /\ cfg' = [cfg EXCEPT
                 !.users[userId] = << [defaultMeals |-> << defaultMeals >>] >>,
                 !.read = [name |-> "updateUserDefaultMeals"]]
    /\ OnlyCfg

\* What every step on the accounts leaves alone.
OnlyAuth ==
    UNCHANGED << store, sub, slot, pending, event, cb, lastSummary, got,
                 changes, logged, uncaught, writeVars, cfg, dash, ctl >>

\* The signup form: createUserWithEmailAndPassword signs the new account in.
SignupAccount(uid) ==
    /\ uid \notin auth.accounts
    /\ auth' = [auth EXCEPT !.accounts = @ \cup {uid}, !.session = uid,
                            !.last = [name |-> "signup.account", uid |-> uid]]
    /\ OnlyAuth

\* The signup form writes the participant document of the account it created.
SignupDoc ==
    /\ auth.last.name = "signup.account"
    /\ auth' = [auth EXCEPT !.docs[auth.last.uid] = << signupDoc >>,
                            !.origin[auth.last.uid] = "self",
                            !.approvedByManager = @ \ {auth.last.uid},
                            !.last = [name |-> "signup", uid |-> auth.last.uid]]
    /\ OnlyAuth

\* Google sign-in: the popup signs the account in; a first sign-in writes the
\* participant document and signs out, a later one signs out unless the
\* participant is approved.
GoogleSignIn(uid) ==
    /\ auth.last.name # "signup.account"
    /\ auth' =
          IF ~Exists(auth.docs[uid])
          THEN [auth EXCEPT !.accounts = @ \cup {uid},
                            !.docs[uid] = << signupDoc >>,
                            !.origin[uid] = "self",
                            !.approvedByManager = @ \ {uid},
                            !.session = NoUser,
                            !.last = [name |-> "google", uid |-> uid]]
          ELSE [auth EXCEPT !.session =
                                IF Data(auth.docs[uid]).status = "approved"
                                THEN uid ELSE NoUser,
                            !.last = [name |-> "google.login", uid |-> uid]]
    /\ OnlyAuth

\* An account is signed in when a page is opened: the browser kept the
\* session, or another tab signed in.
SignedIn(uid) ==
    /\ auth.last.name # "signup.account"
    /\ uid \in auth.accounts
    /\ auth.session # uid
    /\ auth' = [auth EXCEPT !.session = uid,
                            !.last = [name |-> "signedIn", uid |-> uid]]
    /\ OnlyAuth

\* signOut(window.auth): at the end of the signup, or by the logout button.
SignOut ==
    /\ auth.session # NoUser
    /\ auth' = [auth EXCEPT !.session = NoUser, !.last = [name |-> "signOut"]]
    /\ OnlyAuth

\* A manager adds a participant with handleSaveNewUser: the account is made
\* in a worker app, so the manager's session stays.
HandleSaveNewUser(uid, role) ==
    /\ auth.last.name # "signup.account"
    /\ uid \notin auth.accounts
    /\ auth' = [auth EXCEPT !.accounts = @ \cup {uid},
                            !.docs[uid] = << managerAddedDoc(role) >>,
                            !.origin[uid] = "manager",
                            !.last = [name |-> "handleSaveNewUser", uid |-> uid]]
    /\ OnlyAuth

\* A manager presses Approve: updateUserStatus(uid, 'approved').
UpdateUserStatus(uid, status) ==
    /\ auth.last.name # "signup.account"
    /\ Exists(auth.docs[uid])
    /\ auth' = [auth EXCEPT !.docs[uid] = << Merged(Data(@), [status |-> status]) >>,
                            !.approvedByManager =
                                IF status = "approved" THEN @ \cup {uid} ELSE @ \ {uid},
                            !.last = [name |-> "updateUserStatus", uid |-> uid]]
    /\ OnlyAuth

\* A manager deletes a participant: deleteUser removes the document only.
DeleteUser(uid) ==
    /\ auth.last.name # "signup.account"
    /\ uid # "m"
    /\ Exists(auth.docs[uid])
    /\ auth' = [auth EXCEPT !.docs[uid] = Absent,
                            !.origin[uid] = "none",
                            !.approvedByManager = @ \ {uid},
                            !.last = [name |-> "deleteUser", uid |-> uid]]
    /\ OnlyAuth

\* A dashboard page calls checkAuth(requiredRole).
CheckAuth(requiredRole, readFails) ==
    \E r \in {checkAuth(auth.session,
                        IF auth.session = NoUser THEN Absent
                        ELSE auth.docs[auth.session],
                        readFails, requiredRole)} :
        /\ auth' = [auth EXCEPT
                      !.session = IF r.signedOut THEN NoUser ELSE @,
                      !.last = [name |-> "checkAuth", uid |-> auth.session,
                                requiredRole |-> requiredRole,
                                readFails |-> readFails] @@ r]
        /\ OnlyAuth

\* What every step on a dashboard page leaves alone.
OnlyDash ==
    UNCHANGED << store, sub, slot, pending, event, cb, lastSummary, got,
                 changes, logged, uncaught, writeVars, cfg, auth, ctl >>

\* initializeManager / initializeUser: the page's first subscribeToAllData.
OpenDashboard(page) ==
    /\ dash.page = "none"
    /\ dash' = [subscribeToAllData([dash EXCEPT !.page = page])
                    EXCEPT !.calls = @ + 1,
                           !.last = [name |-> "subscribeToAllData"]]
    /\ OnlyDash

\* subscribeToAllData is called again.
Resubscribe ==
    /\ dash.page # "none"
    /\ dash.calls < MaxPageCalls
    /\ dash' = [subscribeToAllData(dash)
                    EXCEPT !.calls = @ + 1,
                           !.last = [name |-> "subscribeToAllData"]]
    /\ OnlyDash

\* A subscription of the manager dashboard that has not been cancelled
\* delivers the snapshot docs to its consumer.
DashSnapshot(i, docs) ==
    /\ dash.page = "manager"
    /\ dash.opened[i].stream \in TableStreams
    /\ dash.opened[i].unsubscribed = 0 /\ ~dash.opened[i].failed
    /\ dash' = [Consumer(dash, dash.opened[i].stream, docs)
                    EXCEPT !.last = [name |-> "snapshot", id |-> i,
                                     stream |-> dash.opened[i].stream]]
    /\ OnlyDash

\* A subscription of the manager dashboard fails: the error handler of
\* onUsersUpdate / onCostsUpdate / onDepositsUpdate calls callback([], error).
DashError(i) ==
    /\ dash.page = "manager"
    /\ dash.opened[i].stream \in TableStreams
    /\ dash.opened[i].unsubscribed = 0 /\ ~dash.opened[i].failed
    /\ dash.tables[dash.opened[i].stream] # <<>>
    /\ dash' = [Consumer(dash, dash.opened[i].stream, <<>>)
                    EXCEPT !.opened[i].failed = TRUE,
                           !.last = [name |-> "error", id |-> i,
                                     stream |-> dash.opened[i].stream]]
    /\ OnlyDash

\* handleSaveNewUser: "settings = await onSettingsUpdate(() => {})" opens a
\* settings subscription and keeps its unsubscribe function as the settings.
SaveNewUserSubscribes ==
    /\ dash.page = "manager"
    /\ dash.calls < MaxPageCalls
    /\ dash' = [dash EXCEPT !.opened = Append(@, Subscription("settings", 0)),
                            !.calls = @ + 1,
                            !.last = [name |-> "handleSaveNewUser"]]
    /\ OnlyDash

\* What every step on the two controllers leaves alone.
OnlyCtl ==
    UNCHANGED << store, sub, slot, pending, event, cb, lastSummary, got,
                 changes, logged, uncaught, writeVars, cfg, auth, dash >>

\* Two separate calls subscribeToSummaryData(m1, ...), (m2, ...).
CreateControllers(m1, m2) ==
    /\ ctl.cs = << >>
    /\ ctl' = [cs |-> << NewController(m1), NewController(m2) >>,
               last |-> [name |-> "create"]]
    /\ OnlyCtl

\* A stream of the live controller k delivers a snapshot or fails.
CtlCallback(k, s, data, error) ==
    /\ ctl.cs # << >>
    /\ ctl.cs[k].live
    /\ \E r \in {Delivered(ctl.cs, k, s, data, error)} :
          ctl' = [cs |-> r.cs,
                  last |-> [name |-> IF error THEN "error" ELSE "data",
                            k |-> k, stream |-> s, fired |-> r.fired]]
    /\ OnlyCtl

CtlSnapshot(k, s, docs) == CtlCallback(k, s, docs, FALSE)
CtlError(k, s) == CtlCallback(k, s, <<>>, TRUE)

\* The function controller k returned is called.
CtlUnsubscribe(k) ==
    /\ ctl.cs # << >>
    /\ ctl.cs[k].live
    /\ ctl' = [cs |-> [ctl.cs EXCEPT ![k].live = FALSE],
               last |-> [name |-> "unsubscribe", k |-> k, fired |-> {}]]
    /\ OnlyCtl

\* The steps of reliable streams (no subscription fails, every getAllUsers()
\* resolves) of a controller that is not torn down, with exceptions raised
\* as F allows.
NextReliable(F) ==
    \/ \E s \in Streams, f \in F : FirstSnapshot(s, f)
    \/ \E s \in Streams, f \in F : \E docs \in Results(s) : ChangeSnapshot(s, docs, f)
    \/ \E s \in Streams : \E docs \in Results(s) : ChangeUnseen(s, docs)
    \/ \E p \in BagToSet(pending), f \in F : JoinResolve(p, f)

\* The steps in which every getAllUsers() resolves.
NextJoinOk ==
    \/ NextReliable({"none"})
    \/ \E s \in Streams : StreamError(s)
    \/ Unsubscribe

\* Records from the store are well-typed: nothing in the computation throws.
Next ==
    \/ NextJoinOk
    \/ \E p \in BagToSet(pending) : JoinReject(p)

Spec == Init /\ [][Next]_vars

\* As Spec, and every getAllUsers() resolves.
SpecJoinOk == Init /\ [][NextJoinOk]_vars

\* Reliable streams, and a pass of calculateAndBroadcast may raise an exception.
SpecThrow == Init /\ [][NextReliable(Faults)]_vars

\* ------------------------------------------- controller on any inputs

\* Result sets of the four queries for the settlement computation: approved,
\* pending, unknown-role and status-less participants, no participant at all,
\* records of a participant whose user document is gone, no meal record, a
\* negative deposit, and costs of the three types.
SummaryUsersResults ==
    { << UserDoc("A", "Ann", "border", "approved"),
         UserDoc("B", "Bob", "border", "pending") >>,
      << UserDoc("A", "Ann", "manager", "approved"),
         UserDoc("B", "Bob", "border", "approved") >>,
      << UserDoc("A", "Ann", "border", "approved"),
         UserDoc("B", "Bob", "guest", "approved") >>,
      << UserDoc("A", "Ann", "manager", "approved"),
         UserDoc("B", "Bob", "border", NoStatus) >>,
      << UserDoc("B", "Bob", "border", "pending") >>,
      << UserDoc("A", "Ann", "border", "approved") >>,
      <<>> }
SummaryMealsResults ==
    { << MealDoc("m1", "A", Frac(5, 2)), MealDoc("m2", "B", Num(1)) >>,
      << MealDoc("m1", "A", Frac(5, 2)) >>,
      <<>> }
SummaryDepositsResults ==
    { << DepositDoc("d2", "B", 100), DepositDoc("d1", "A", 300) >>,
      << DepositDoc("d1", "A", 300) >>,
      << DepositDoc("d3", "A", -50), DepositDoc("d2", "B", 100),
         DepositDoc("d1", "A", 300) >> }
SummaryCostsResults ==
    { << CostDoc("c3", "individual", "B", 50),
         CostDoc("c2", "shared", "A", 100),
         CostDoc("c1", "market", "A", 500) >>,
      << CostDoc("c2", "shared", "A", 100),
         CostDoc("c1", "market", "A", 500) >>,
      << CostDoc("c4", "individual", "A", 30),
         CostDoc("c2", "shared", "A", 100),
         CostDoc("c1", "market", "A", 500) >>,
      << CostDoc("c1", "market", "A", 500) >> }

SummaryResults(s) ==
    CASE s = "users" -> SummaryUsersResults
      [] s = "meals" -> SummaryMealsResults
      [] s = "deposits" -> SummaryDepositsResults
      [] s = "costs" -> SummaryCostsResults

\* The slots of a controller whose four streams have delivered the store st.
SlotsOf(st) ==
    [ users |-> st.users,
      meals |-> st.meals,
      deposits |-> WithUserNames(st.deposits, st.users),
      costs |-> WithUserNames(st.costs, st.users) ]

\* A live controller: the four subscriptions are active, each has delivered
\* the store's result set, and the consumer has the summary of the slots.
InitSummary ==
    /\ \E u \in SummaryUsersResults, m \in SummaryMealsResults,
          d \in SummaryDepositsResults, c \in SummaryCostsResults :
            store = [users |-> u, meals |-> m, deposits |-> d, costs |-> c]
    /\ sub = [s \in Streams |-> "active"]
    /\ slot = SlotsOf(store)
    /\ pending = EmptyBag
    /\ event = Event("init", "all", <<>>, "none", FALSE)
    /\ cb = <<>>
    /\ lastSummary = << SummaryOf(slot) >>
    /\ got = Streams
    /\ changes = 0
    /\ logged = FALSE
    /\ uncaught = FALSE
    /\ NoWrites
    /\ InitApps

NextSummary ==
    \/ \E s \in Streams : \E docs \in SummaryResults(s) :
            ChangeSnapshot(s, docs, "none")
    \/ \E p \in BagToSet(pending) : JoinResolve(p, "none")

\* The settlement computation of a live controller on any result sets.
SpecSummary == InitSummary /\ [][NextSummary]_vars

\* ---------------------------------------------- the write interface

\* The calls of the write interface, with at most limit saveMeal calls
\* between their query and their write at a time.
NextWrites(limit) ==
    \/ \E u \in {"A", "B"}, d \in MealDates, m \in MealInputs :
            BagCardinality(calls) < limit /\ SaveMealQuery(u, d, m)
    \/ \E call \in BagToSet(calls) : SaveMealWrite(call)
    \/ \E u \in {"A", "B"}, a \in AmountInputs, d \in LedgerDates :
            AddDeposit(u, a, d, "")
    \/ \E i \in Indices(db.deposits), data \in DepositUpdates :
            UpdateDeposit(i, data)
    \/ \E costData \in CostInputs : AddCost(costData)
    \/ \E i \in Indices(db.costs), data \in CostUpdates : UpdateCost(i, data)

\* Any number of saveMeal calls may be between query and write.
SpecWrites == Init /\ [][NextWrites(MaxWrites)]_vars

\* Every saveMeal call completes before the next one begins.
SpecWritesInSequence == Init /\ [][NextWrites(1)]_vars

\* ------------------------------------------------------- the settings

NextSettings ==
    \/ \E today \in Months : SettingsSnapshot(today)
    \/ \E readFails \in BOOLEAN, today \in Months : GetSettings(readFails, today)
    \/ \E userId \in {"A", "B", "Z"}, failure \in ReadFailures, today \in Months :
            GetUserDefaultMeals(userId, failure, today)
    \/ \E m \in MealWeights : UpdateSettings(m, month)
    \/ \E userId \in {"A", "B"}, m \in MealWeights :
            UpdateUserDefaultMeals(userId, m)

\* Reads and writes of the settings and of the participants' default meals.
SpecSettings == Init /\ [][NextSettings]_vars

\* ------------------------------------------------------- the accounts

NextAuth ==
    \/ \E uid \in Uids : SignupAccount(uid)
    \/ SignupDoc
    \/ \E uid \in Uids : GoogleSignIn(uid)
    \/ \E uid \in Uids : SignedIn(uid)
    \/ SignOut
    \/ \E uid \in Uids, role \in {"border", "manager"} :
            HandleSaveNewUser(uid, role)
    \/ \E uid \in Uids : UpdateUserStatus(uid, "approved")
    \/ \E uid \in Uids : DeleteUser(uid)
    \/ \E requiredRole \in {AnyRole, "border", "manager"}, readFails \in BOOLEAN :
            CheckAuth(requiredRole, readFails)

\* Signup, approval and the authentication check of the dashboards.
SpecAuth == Init /\ [][NextAuth]_vars

\* ------------------------------------------------------ the dashboards

\* A dashboard page on which subscribeToAllData is called again and again.
NextResubscribe ==
    \/ \E page \in {"manager", "user"} : OpenDashboard(page)
    \/ Resubscribe
    \/ \E i \in Indices(dash.opened), st \in TableStreams :
          \E docs \in Results(st) :
              dash.opened[i].stream = st /\ DashSnapshot(i, docs)

NextDash ==
    \/ NextResubscribe
    \/ \E i \in Indices(dash.opened) : DashError(i)
    \/ SaveNewUserSubscribes

SpecResubscribe == Init /\ [][NextResubscribe]_vars

\* The dashboard pages, with failing subscriptions and added users.
SpecDash == Init /\ [][NextDash]_vars

\* ------------------------------------------------ the two controllers

NextPair ==
    \/ \E m2 \in Months : CreateControllers(month, m2)
    \/ \E k \in Controllers, s \in Streams : \E docs \in PairResults(s) :
            CtlSnapshot(k, s, docs)
    \/ \E k \in Controllers, s \in Streams : CtlError(k, s)
    \/ \E k \in Controllers : CtlUnsubscribe(k)

\* Two controllers created by separate subscribeToSummaryData calls.
SpecPair == Init /\ [][NextPair]_vars

\* ------------------------------------------------------------ claims

AllDelivered == got = Streams

\* C1: the consumer callback is invoked only after each of the four streams
\* has delivered at least one snapshot to the controller.
C1_NoSummaryBeforeAllFour == cb # <<>> => AllDelivered

\* Every subscription is active and no handler is waiting: the store has
\* stopped changing and all deliveries have completed.
Quiescent == (\A s \in Streams : sub[s] = "active") /\ pending = EmptyBag

\* C2: once all deliveries have completed, the last summary delivered is the
\* summary of the latest snapshot of each of the four streams.
C2_ConvergesToLatest == Quiescent => lastSummary = << SummaryOf(store) >>

\* C3: after the composite unsubscribe has been called, the consumer callback
\* is not invoked.
C3_NoCallbackAfterTeardown == TornDown => cb = <<>>

\* C4: in a live controller a snapshot delivered by a stream overwrites that
\* stream's slot and invokes the consumer callback exactly once, with the
\* summary of the four slots as they are then.
C4_LiveSnapshotOneSummary ==
    (AllDelivered /\ ~TornDown /\ event.kind = "data") =>
        /\ slot[event.stream] = event.data
        /\ cb = << SummaryOf(slot) >>
        /\ lastSummary = cb

\* A live controller has received a changed result set of the meals query.
C4_Witness ==
    /\ AllDelivered /\ ~TornDown
    /\ event.kind = "data" /\ event.stream = "meals"
    /\ event.data # InitialStore.meals
    /\ cb # <<>>

\* C5: an error of one subscription leaves the slots as they are and delivers
\* no summary, and while a stream is in error a snapshot of another stream
\* leaves the failed stream's slot alone and delivers the summary of the slots.
C5_ErrorFreezesSlot ==
    [][ /\ event'.kind = "error" =>
              (slot' = slot /\ cb' = <<>> /\ lastSummary' = lastSummary)
        /\ \A s \in Streams :
              (sub[s] = "errored" /\ event'.kind = "data" /\ event'.stream # s)
                  => (slot'[s] = slot[s] /\ cb' = << SummaryOf(slot') >>) ]_vars

\* A stream failed after it had delivered a non-empty snapshot, and then
\* another stream delivered a snapshot.
C5_Witness ==
    \E s \in Streams :
        /\ sub[s] = "errored" /\ s \in got /\ slot[s] # <<>>
        /\ event.kind = "data" /\ event.stream # s
        /\ cb # <<>>

\* C6: when getAllUsers() fails for a snapshot of deposits or costs, the
\* snapshot's records reach the controller's slot with the placeholder name,
\* and a summary is delivered.
C6_JoinFailureKeepsBatch ==
    event.kind = "joinfail" =>
        /\ slot[event.stream] = WithUserNames(event.data, <<>>)
        /\ cb # <<>>

\* C7: an exception in the computation of calculateAndBroadcast is caught and
\* logged, leaves the function by no other way, invokes the consumer callback
\* not at all and keeps the last summary; a later pass that raises nothing
\* delivers the summary of the slots.
C7_ThrowIsContained ==
    [][ /\ (event'.kind = "data" /\ event'.fault = "compute") =>
              /\ cb' = <<>>
              /\ lastSummary' = lastSummary
              /\ logged'
              /\ sub'[event'.stream] = "active"
        /\ ~uncaught'
        /\ (event'.kind = "data" /\ event'.fault = "none") =>
              cb' = << SummaryOf(slot') >> ]_vars

\* After a caught exception, a later snapshot has been recomputed and
\* delivered.
C7_Witness ==
    /\ logged /\ event.kind = "data" /\ event.fault = "none"
    /\ lastSummary # <<>> /\ cb = lastSummary

\* C8: the composite unsubscribe cancels the four subscriptions, and a second
\* call changes nothing and invokes no callback.
C8_UnsubscribeIdempotent ==
    [][ event'.kind = "unsubscribe" =>
          /\ \A s \in Streams : sub'[s] = "cancelled"
          /\ cb' = <<>>
          /\ TornDown =>
                /\ sub' = sub /\ slot' = slot /\ pending' = pending
                /\ lastSummary' = lastSummary /\ got' = got
                /\ uncaught' = uncaught ]_vars

\* The composite unsubscribe has been called on a torn-down controller.
C8_Witness == TornDown /\ event.kind = "unsubscribe" /\ event.again

\* The participants with role border or manager and status approved.
Eligible(users) ==
    { i \in Indices(users) :
        users[i].role \in {"border", "manager"} /\ users[i].status = "approved" }

\* C9: a delivered summary has one row for each participant with role border
\* or manager and status approved, no other row, and userCount counts them.
C9_RowsAreExactlyEligible ==
    cb # <<>> =>
        LET rows == cb[1].userSummaries
            users == slot.users
        IN  /\ { rows[i].userId : i \in Indices(rows) }
                 = { users[i].id : i \in Eligible(users) }
            /\ Len(rows) = Cardinality(Eligible(users))
            /\ cb[1].userCount = Cardinality(Eligible(users))

Pending(users) == { users[i].id : i \in { j \in Indices(users) : users[j].status = "pending" } }

\* C10: a participant with status pending has no row in userSummaries and is
\* counted neither in userCount nor in the divisor of sharedCostPerUser.
C10_PendingExcluded ==
    cb # <<>> =>
        LET sm == cb[1]
            rows == sm.userSummaries
        IN  /\ \A i \in Indices(rows) : rows[i].userId \notin Pending(slot.users)
            /\ sm.userCount = Len(rows)
            /\ sm.userCount > 0 =>
                  Mul(sm.sharedCostPerUser, Num(sm.userCount)) = sm.totalSharedCost

\* A summary is delivered while a pending participant has meal, deposit and
\* cost records of the period, and there is a shared cost to divide.
C10_Witness ==
    /\ cb # <<>>
    /\ \E u \in Pending(slot.users) :
          /\ \E i \in Indices(slot.meals) : slot.meals[i].userId = u
          /\ \E i \in Indices(slot.deposits) : slot.deposits[i].userId = u
          /\ \E i \in Indices(slot.costs) : slot.costs[i].userId = u
    /\ Positive(cb[1].totalSharedCost)
    /\ cb[1].userCount > 0

\* The records of docs that are not attributed to a participant in P.
NotOf(P, docs) == SelectSeq(docs, LAMBDA r : r.userId \notin P)

\* The slots that differ from sl only in meal, deposit or cost records
\* attributed to a pending participant.
PendingVariants(sl) ==
    { alt \in { [ users |-> sl.users,
                 meals |-> m,
                 deposits |-> WithUserNames(d, sl.users),
                 costs |-> WithUserNames(c, sl.users) ] :
                   m \in SummaryMealsResults, d \in SummaryDepositsResults,
                   c \in SummaryCostsResults } :
        \A s \in {"meals", "deposits", "costs"} :
            NotOf(Pending(sl.users), alt[s]) = NotOf(Pending(sl.users), sl[s]) }

\* The balance of each row of an approved participant.
ApprovedBalances(users, sm) ==
    { << sm.userSummaries[i].userId, sm.userSummaries[i].balance >> :
        i \in { j \in Indices(sm.userSummaries) :
                  \E k \in Eligible(users) :
                      users[k].id = sm.userSummaries[j].userId } }

\* C11: the summary of slots that differ from the delivered ones only in
\* records attributed to a pending participant has the same mealRate, the same
\* sharedCostPerUser and the same balance for every approved participant.
C11_PendingRecordsDoNotCount ==
    cb # <<>> =>
        \A alt \in PendingVariants(slot) :
            LET other == SummaryOf(alt)
            IN  /\ other.mealRate = cb[1].mealRate
                /\ other.sharedCostPerUser = cb[1].sharedCostPerUser
                /\ ApprovedBalances(slot.users, other)
                     = ApprovedBalances(slot.users, cb[1])

RECURSIVE TotalOver(_, _)
\* The sum of the numbers xs[i] for i in I.
TotalOver(xs, I) ==
    IF I = {} THEN Zero
    ELSE LET i == CHOOSE j \in I : TRUE
         IN  Add(xs[i], TotalOver(xs, I \ {i}))

C13_MealRateSafeDivision ==
    cb # <<>> =>
        LET sm == cb[1]
        IN  /\ sm.mealRate.d > 0
            /\ Positive(sm.totalMeals) =>
                  Mul(sm.mealRate, sm.totalMeals) = sm.totalMarketCost
            /\ sm.totalMeals = Zero => sm.mealRate = Zero

\* A summary is delivered for a period with a market cost and no meal.
C13_Witness ==
    /\ cb # <<>>
    /\ cb[1].totalMeals = Zero
    /\ Positive(cb[1].totalMarketCost)
    /\ slot.users # <<>>

\* C14: in a delivered summary sharedCostPerUser is totalSharedCost divided by
\* the number of eligible participants (role border or manager, status
\* approved) when there is one, every row carries that sharedCost, and with no
\* eligible participant sharedCostPerUser is 0 and userSummaries is empty.
C14_SharedCostPerEligible ==
    cb # <<>> =>
        LET sm == cb[1]
            rows == sm.userSummaries
            n == Cardinality(Eligible(slot.users))
        IN  /\ n > 0 =>
                  /\ sm.sharedCostPerUser = Div(sm.totalSharedCost, Num(n))
                  /\ \A i \in Indices(rows) :
                        rows[i].sharedCost = sm.sharedCostPerUser
            /\ n = 0 => (sm.sharedCostPerUser = Zero /\ rows = <<>>)

\* C15: every row has balance = totalDeposit - (mealCost + sharedCost +
\* individualCost), with totalDeposit the sum of the participant's deposits,
\* mealCost the participant's meal total times mealRate, and individualCost
\* the sum of the individual-type costs attributed to the participant.
C15_BalanceIdentity ==
    cb # <<>> =>
        LET sm == cb[1]
            rows == sm.userSummaries
            meals == [i \in Indices(slot.meals) |-> slot.meals[i].totalMeals]
            Of(docs, u) == { i \in Indices(docs) : docs[i].userId = u }
        IN  \A i \in Indices(rows) :
                LET r == rows[i]
                IN  /\ r.balance
                         = Sub(r.totalDeposit,
                               Add(r.mealCost, Add(r.sharedCost, r.individualCost)))
                    /\ r.totalDeposit
                         = TotalOver(Amounts(slot.deposits),
                                     Of(slot.deposits, r.userId))
                    /\ r.mealCost
                         = Mul(TotalOver(meals, Of(slot.meals, r.userId)),
                               sm.mealRate)
                    /\ r.individualCost
                         = TotalOver(Amounts(slot.costs),
                                { j \in Of(slot.costs, r.userId) :
                                    slot.costs[j].type = "individual" })

\* A summary is delivered with a row for a participant that has meals, a
\* deposit, an individual cost, and a market and a shared cost attributed.
C15_Witness ==
    /\ cb # <<>>
    /\ \E i \in Indices(cb[1].userSummaries) :
          LET r == cb[1].userSummaries[i]
          IN  /\ Positive(r.individualCost) /\ Positive(r.mealCost)
              /\ Positive(r.sharedCost) /\ Positive(r.totalDeposit)
              /\ \A t \in {"market", "shared", "individual"} :
                    \E j \in Indices(slot.costs) :
                        slot.costs[j].type = t /\ slot.costs[j].userId = r.userId

\* C16: in a delivered summary messBalance is totalAllDeposits minus the sum
\* of totalCost over the rows of userSummaries.
C16_MessBalanceConservation ==
    cb # <<>> =>
        LET sm == cb[1]
            costs == [i \in Indices(sm.userSummaries) |->
                        sm.userSummaries[i].totalCost]
        IN  sm.messBalance
              = Sub(sm.totalAllDeposits, TotalOver(costs, Indices(costs)))

\* A summary with rows is delivered while part of the meals belongs to a
\* participant without row.
C16_Witness ==
    /\ cb # <<>>
    /\ Len(cb[1].userSummaries) > 0
    /\ \E i \in Indices(slot.meals) :
          \A j \in Indices(cb[1].userSummaries) :
              cb[1].userSummaries[j].userId # slot.meals[i].userId
    /\ Positive(cb[1].totalMarketCost)

\* The summary a controller of the period m computes from the database.
PeriodSummary(database, m) ==
    ComputeSummary(Members, MonthQuery(database.meals, m),
                   MonthQuery(database.deposits, m), MonthQuery(database.costs, m))

\* The amount typed is below zero.
Negative(v) == IF "text" \in DOMAIN v THEN v.text = "-50" ELSE v.n < 0

\* C17: addDeposit and updateDeposit store a negative amount as it is, and
\* adding a deposit of -a for a member lowers totalAllDeposits of its period,
\* the member's totalDeposit and the member's balance by a, and leaves every
\* other row as it was.
C17_DepositsAreSigned ==
    [][ /\ (op'.name = "updateDeposit" /\ Negative(op'.data.amount)) =>
              db'.deposits[op'.id].amount = op'.data.amount
        /\ (op'.name = "addDeposit" /\ Negative(op'.amount)) =>
              \E added \in {db'.deposits[op'.id]} :
              \E before \in {PeriodSummary(db, added.month)},
                 after \in {PeriodSummary(db', added.month)} :
                  /\ added.amount = Num(-50)
                  /\ Len(db'.deposits) = Len(db.deposits) + 1
                  /\ after.totalAllDeposits
                       = Sub(before.totalAllDeposits, Num(50))
                  /\ \A i \in Indices(after.userSummaries) :
                        \E was \in {before.userSummaries[i]},
                           row \in {after.userSummaries[i]} :
                            IF row.userId = added.userId
                            THEN /\ row.totalDeposit
                                      = Sub(was.totalDeposit, Num(50))
                                 /\ row.balance = Sub(was.balance, Num(50))
                                 /\ row.totalCost = was.totalCost
                            ELSE row = was ]_vars

\* A negative deposit has been added to a period in which the other member
\* has a deposit too.
C17_Witness ==
    /\ op.name = "addDeposit"
    /\ db.deposits[op.id].amount = Num(-50)
    /\ \E i \in Indices(db.deposits) :
          /\ db.deposits[i].userId # op.userId
          /\ db.deposits[i].month = db.deposits[op.id].month

\* C18: the meals collection never holds two records of the same userId and
\* date.
C18_OneMealPerUserAndDate ==
    \A i, j \in Indices(db.meals) :
        (db.meals[i].userId = db.meals[j].userId
            /\ db.meals[i].date = db.meals[j].date) => i = j

\* The identifiers of the meal records of (userId, date).
MealsOf(meals, userId, date) ==
    { i \in Indices(meals) : meals[i].userId = userId /\ meals[i].date = date }

\* C19: when saveMeal calls run one after the other, a completed call leaves
\* exactly one record of its (userId, date), with the call's breakfast, lunch,
\* dinner and their sum as totalMeals; a call with the values the record has
\* already leaves the collection as it was.
C19_SaveMealIsAnUpsert ==
    [][ op'.name = "saveMeal" =>
          LET call == op'.call
              given == call.mealData
              mine == MealsOf(db'.meals, call.userId, call.date)
          IN  /\ Cardinality(mine) = 1
              /\ \A i \in mine :
                    /\ db'.meals[i].breakfast = given.breakfast
                    /\ db'.meals[i].lunch = given.lunch
                    /\ db'.meals[i].dinner = given.dinner
                    /\ db'.meals[i].totalMeals
                         = Add(given.breakfast, Add(given.lunch, given.dinner))
              /\ (\E i \in MealsOf(db.meals, call.userId, call.date) :
                      /\ db.meals[i].breakfast = given.breakfast
                      /\ db.meals[i].lunch = given.lunch
                      /\ db.meals[i].dinner = given.dinner)
                    => db'.meals = db.meals ]_vars

\* A saveMeal call has completed for a (userId, date) that had a record.
C19_Witness ==
    /\ op.name = "saveMeal"
    /\ op.call.found # <<>>
    /\ Len(db.meals) = 1

Range(docs) == { docs[i] : i \in Indices(docs) }

\* The first seven characters of a date: YYYY-MM.
YearMonth(date) == [k \in 1..7 |-> date[k]]

\* C20: after every call of the write interface each meal, deposit and cost
\* record has the YYYY-MM of its date as month, and an update that moves a
\* record's date to another month takes the record out of the old period's
\* query result and puts it into the new period's.
C20_MonthFollowsDate ==
    [][ /\ \A c \in {"meals", "deposits", "costs"} :
              \A i \in Indices(db'[c]) :
                  db'[c][i].month = YearMonth(db'[c][i].date)
        /\ \A c \in {"deposits", "costs"} :
              (op'.name = (IF c = "deposits" THEN "updateDeposit" ELSE "updateCost")
                 /\ YearMonth(op'.data.date) # YearMonth(op'.old.date)) =>
                    /\ op'.old \in Range(MonthQuery(db[c], YearMonth(op'.old.date)))
                    /\ db'[c][op'.id]
                         \notin Range(MonthQuery(db'[c], YearMonth(op'.old.date)))
                    /\ db'[c][op'.id]
                         \in Range(MonthQuery(db'[c], YearMonth(op'.data.date))) ]_vars

\* A deposit has been moved from one month to another.
C20_Witness ==
    /\ op.name = "updateDeposit"
    /\ op.old.month # db.deposits[op.id].month
    /\ db.meals # <<>>

\* C29: in a delivered summary messBalance is totalAllDeposits minus the
\* total cost the manager overview shows, totalMarketCost + totalOtherCosts.
C29_MessBalanceMatchesOverview ==
    cb # <<>> =>
        LET shown == renderOverviewSection(cb[1])
        IN  /\ shown.messBalance = Sub(shown.totalDeposit, shown.totalCost)
            /\ cb[1].messBalance
                 = Sub(cb[1].totalAllDeposits,
                       Add(cb[1].totalMarketCost, cb[1].totalOtherCosts))

\* C21: a read of the settings while the settings document is absent gives
\* the hardcoded default meals, and after it the settings document holds the
\* default; for the subscription onSettingsUpdate and for getSettings.
C21_DefaultReadIsPersisted ==
    [][ (cfg.doc = Absent /\ cfg'.read.name \in {"onSettingsUpdate", "getSettings"}
           /\ ~cfg'.read.threw) =>
          /\ cfg'.read.value.defaultMeals = HardcodedMeals
          /\ cfg'.doc = << cfg'.read.value >> ]_vars

\* What getUserDefaultMeals is to return for participant userId.
ExpectedDefaultMeals(userId, failure) ==
    IF failure = "user" THEN HardcodedMeals
    ELSE IF cfg.users[userId] # Absent
            /\ cfg.users[userId][1].defaultMeals # Absent
    THEN cfg.users[userId][1].defaultMeals[1]
    ELSE IF failure = "none" /\ cfg.doc # Absent
    THEN cfg.doc[1].defaultMeals
    ELSE HardcodedMeals

\* C25: getUserDefaultMeals returns the participant's own defaultMeals when
\* the participant document has them, otherwise those of the settings
\* document, otherwise (no settings document, or a failed read) the hardcoded
\* triple; it never throws.
C25_DefaultMealsFallback ==
    [][ cfg'.read.name = "getUserDefaultMeals" =>
          /\ ~cfg'.read.threw
          /\ cfg'.read.value
               = ExpectedDefaultMeals(cfg'.read.userId, cfg'.read.failure)
          /\ DOMAIN cfg'.read.value = {"breakfast", "lunch", "dinner"} ]_vars

\* getUserDefaultMeals has returned the default meals of the settings, which
\* are not the hardcoded ones, for a participant without own default meals.
C25_Witness ==
    /\ cfg.read.name = "getUserDefaultMeals"
    /\ cfg.read.userId = "B" /\ cfg.users.B = << [defaultMeals |-> Absent] >>
    /\ cfg.doc # Absent
    /\ cfg.read.value = cfg.doc[1].defaultMeals
    /\ cfg.read.value # HardcodedMeals

\* C23: a participant document written by self-signup (form or Google) has
\* status pending; checkAuth resolves for a self-signed participant only
\* after a manager's updateUserStatus has approved it; a participant added by
\* handleSaveNewUser is approved from its creation.
C23_PendingUntilApproved ==
    [][ /\ auth'.last.name \in {"signup", "google"} =>
              /\ auth'.docs[auth'.last.uid] # Absent
              /\ auth'.docs[auth'.last.uid][1].status = "pending"
        /\ (auth'.last.name = "checkAuth" /\ auth'.last.resolved
              /\ auth.origin[auth'.last.uid] = "self") =>
                 auth'.last.uid \in auth.approvedByManager
        /\ (auth'.last.name = "checkAuth" /\ auth'.last.uid # NoUser
              /\ auth.docs[auth'.last.uid] # Absent
              /\ auth.docs[auth'.last.uid][1].status = "pending") =>
                 (~auth'.last.resolved /\ auth'.session = NoUser)
        /\ auth'.last.name = "handleSaveNewUser" =>
              /\ auth'.docs[auth'.last.uid] # Absent
              /\ auth'.docs[auth'.last.uid][1].status = "approved" ]_vars

\* checkAuth has resolved for a participant that signed up and was approved
\* by a manager afterwards.
C23_Witness ==
    /\ auth.last.name = "checkAuth" /\ auth.last.resolved
    /\ auth.origin[auth.last.uid] = "self"
    /\ auth.last.uid \in auth.approvedByManager

\* C27: checkAuth resolves exactly when somebody is signed in, the
\* participant document is read and exists, its status is approved and its
\* role is the required one, if one is required; a participant that is not
\* approved is signed out and rejected whatever the role; an approved one
\* with another role is rejected and sent to its own dashboard, and stays
\* signed in.
C27_CheckAuthGate ==
    [][ auth'.last.name = "checkAuth" =>
          LET r == auth'.last
              doc == IF r.uid = NoUser THEN Absent ELSE auth.docs[r.uid]
              known == r.uid # NoUser /\ ~r.readFails /\ doc # Absent
          IN  /\ r.resolved <=>
                    /\ known
                    /\ doc[1].status = "approved"
                    /\ r.requiredRole \in {AnyRole, doc[1].role}
              /\ (known /\ doc[1].status # "approved") =>
                    /\ ~r.resolved /\ r.signedOut /\ auth'.session = NoUser
                    /\ r.redirect = "index.html"
              /\ (known /\ doc[1].status = "approved"
                    /\ r.requiredRole \notin {AnyRole, doc[1].role}) =>
                    /\ ~r.resolved /\ ~r.signedOut /\ auth'.session = r.uid
                    /\ r.redirect = (IF doc[1].role = "manager"
                                     THEN "manager.html" ELSE "user.html") ]_vars

\* checkAuth('manager') has rejected a pending border, which has the wrong
\* role too, and signed it out.
C27_Witness ==
    /\ auth.last.name = "checkAuth" /\ auth.last.requiredRole = "manager"
    /\ auth.last.uid # NoUser /\ ~auth.last.readFails
    /\ auth.docs[auth.last.uid] = << signupDoc >>
    /\ auth.last.signedOut /\ auth.session = NoUser

\* The subscriptions that are open: no unsubscribe of them has been called.
Open == { i \in Indices(dash.opened) : dash.opened[i].unsubscribed = 0 }

\* C22: after any number of invocations of subscribeToAllData exactly one
\* summary controller and one subscription per stream of the page are open,
\* and every subscription of an earlier invocation has been unsubscribed
\* exactly once.
C22_CancelBeforeReplace ==
    dash.page # "none" =>
        /\ \A k \in Indices(PageStreams(dash.page)) :
              Cardinality({ i \in Open :
                  dash.opened[i].stream = PageStreams(dash.page)[k] }) = 1
        /\ Cardinality(Open) = Len(PageStreams(dash.page))
        /\ \A i \in Indices(dash.opened) :
              dash.opened[i].unsubscribed
                = (IF dash.opened[i].by < dash.invocations THEN 1 ELSE 0)

\* subscribeToAllData has run three times on the manager dashboard.
C22_Witness ==
    /\ dash.page = "manager"
    /\ dash.invocations = 3
    /\ dash.tables.users # <<>>

\* C28: every open subscription of the manager dashboard is recorded in
\* unsubscribers, and there are no more open subscriptions than the page has
\* streams, however many users have been added.
C28_EverySubscriptionRecorded ==
    dash.page = "manager" =>
        /\ \A i \in Open :
              \E k \in Indices(dash.unsubscribers) : dash.unsubscribers[k] = i
        /\ Cardinality(Open) <= Len(PageStreams("manager"))

\* C30: when a subscription of the manager dashboard fails, allUsersCache
\* and the rendered tables stay as the last snapshot left them.
C30_ErrorKeepsLastSnapshot ==
    [][ dash'.last.name = "error" =>
          /\ dash'.allUsersCache = dash.allUsersCache
          /\ dash'.tables = dash.tables ]_vars

\* C24: the last summary a controller delivered is the aggregation of its
\* four slots and of nothing else: two controllers of the same month whose
\* slots are equal, whatever snapshots they received and in whatever order,
\* have delivered the same last summary.
C24_SummaryDependsOnSlotsOnly ==
    ctl.cs # << >> =>
        /\ \A k \in Controllers :
              ctl.cs[k].last # <<>> =>
                  ctl.cs[k].last = << SummaryFor(ctl.cs[k].month, ctl.cs[k].slot) >>
        /\ (ctl.cs[1].month = ctl.cs[2].month /\ ctl.cs[1].slot = ctl.cs[2].slot
              /\ ctl.cs[1].last # <<>> /\ ctl.cs[2].last # <<>>) =>
                 ctl.cs[1].last = ctl.cs[2].last

\* Two controllers of the same month hold the same four non-empty slots, the
\* users slot being a changed result set, and the one that delivered last is
\* not the one the unsubscribe of which has been called.
C24_Witness ==
    /\ ctl.cs # << >>
    /\ ctl.cs[1].month = ctl.cs[2].month
    /\ ctl.cs[1].slot = ctl.cs[2].slot
    /\ \A s \in Streams : ctl.cs[1].slot[s] # <<>>
    /\ ctl.cs[1].slot.users # InitialStore.users
    /\ ctl.cs[1].last # <<>> /\ ctl.cs[2].last # <<>>
    /\ ctl.last.name = "data"

\* C26: a snapshot or an error delivered to one controller, and the teardown
\* of one controller, leave the other controller's slots, last summary and
\* liveness as they were, and do not fire the other's callback.
C26_ControllersAreIsolated ==
    [][ ctl'.last.name \in {"data", "error", "unsubscribe"} =>
          \A j \in Controllers \ {ctl'.last.k} :
              /\ ctl'.cs[j] = ctl.cs[j]
              /\ j \notin ctl'.last.fired ]_vars

\* One controller has been torn down and the other one, which holds other
\* slots, has delivered a summary after that.
C26_Witness ==
    /\ ctl.cs # << >>
    /\ \E k \in Controllers :
          /\ ~ctl.cs[k].live /\ ctl.cs[k].last # <<>>
          /\ ctl.cs[3 - k].live
          /\ ctl.last.name = "data" /\ ctl.last.k = 3 - k
          /\ ctl.last.fired = {3 - k}
          /\ ctl.cs[3 - k].slot # ctl.cs[k].slot

====
